---------------------------- MODULE Spec2Model ----------------------------
(***************************************************************************)
(* Thermometers MIP solver: the puzzle constructor (puzzle.py), the        *)
(* solver-free validator (puzzle.py) and the cut-based enumerator          *)
(* (solver.py) as one state machine.                                       *)
(*                                                                         *)
(* Python's 0-based lists are TLA+ sequences: row_sums[row] of the code is *)
(* row_sums[row + 1] here.  A cell is the pair <<row, col>>.               *)
(***************************************************************************)
EXTENDS Integers, Sequences, FiniteSets, TLC

(***************************************************************************)
(* Bounds of the model.                                                    *)
(***************************************************************************)
\* solver inputs: grids of at most MaxCells cells (height * width)
MaxCells == 4
\* public calls (solve, solve_iterative, validate_solution, get_solver_info) made
\* on one solver instance
MaxCalls == 2
\* largest explicit max_num_solutions passed to solve_iterative
MaxMax == 3
\* constructor inputs: longest row_sums / col_sums list
MaxDim == 2
\* constructor inputs: most thermometer paths, longest path
MaxPaths == 2
MaxPathLen == 2

\* Python's None where an int is optional: the empty sequence, an int k being <<k>>
None == <<>>

Range(s) == {s[i] : i \in 1..Len(s)}

RECURSIVE SumSeq(_)
\* Python's sum() over a list
SumSeq(s) == IF s = <<>> THEN 0 ELSE Head(s) + SumSeq(Tail(s))

Abs(x) == IF x < 0 THEN -x ELSE x

RECURSIVE SeqsUpTo(_, _)
\* every sequence over S of length 0..n
SeqsUpTo(S, n) ==
    IF n = 0 THEN {<<>>}
    ELSE LET shorter == SeqsUpTo(S, n - 1)
         IN  shorter \cup {Append(s, x) : s \in {t \in shorter : Len(t) = n - 1}, x \in S}

(***************************************************************************)
(* Thermometer.__init__ and _validate_connectivity (puzzle.py 10-33).      *)
(***************************************************************************)
Adjacent(p, q) == Abs(p[1] - q[1]) + Abs(p[2] - q[2]) = 1

\* the error Thermometer(id, positions) raises, or "ok"
ThermometerInit(positions) ==
    IF positions = <<>> THEN "EmptyPositions"
    ELSE IF Cardinality(Range(positions)) # Len(positions) THEN "DuplicatePositions"
    ELSE IF \E i \in 1..(Len(positions) - 1) : ~Adjacent(positions[i], positions[i + 1])
         THEN "NotAdjacent"
    ELSE "ok"

RECURSIVE CreateThermometers(_, _)
\* the loop of ThermometerPuzzle.__init__ over enumerate(thermometer_paths), from
\* path i on: the first error raised, or "ok"
CreateThermometers(paths, i) ==
    IF i > Len(paths) THEN "ok"
    ELSE IF paths[i] = <<>> THEN "EmptyPath"
    ELSE IF ThermometerInit(paths[i]) # "ok" THEN ThermometerInit(paths[i])
    ELSE CreateThermometers(paths, i + 1)

RECURSIVE Flatten(_)
\* the cells in the order the two nested loops of _validate_grid_coverage visit them
Flatten(paths) == IF paths = <<>> THEN <<>> ELSE Head(paths) \o Flatten(Tail(paths))

InBounds(pos, height, width) ==
    /\ 0 <= pos[1] /\ pos[1] < height
    /\ 0 <= pos[2] /\ pos[2] < width

RECURSIVE ScanCoverage(_, _, _, _, _)
\* _validate_grid_coverage's scan from cell k on, all_positions being the cells seen
ScanCoverage(cells, k, all_positions, height, width) ==
    IF k > Len(cells)
    THEN IF Cardinality(all_positions) # height * width THEN "IncompleteCoverage" ELSE "ok"
    ELSE IF ~InBounds(cells[k], height, width) THEN "OutOfBounds"
    ELSE IF cells[k] \in all_positions THEN "Overlap"
    ELSE ScanCoverage(cells, k + 1, all_positions \cup {cells[k]}, height, width)

\* the scan with the overlap check left out and the cells counted in a list
ValidateGridCoverageNoOverlapCheck(paths, height, width) ==
    LET cells == Flatten(paths)
    IN  IF \E k \in 1..Len(cells) : ~InBounds(cells[k], height, width) THEN "OutOfBounds"
        ELSE IF Len(cells) # height * width THEN "IncompleteCoverage"
        ELSE "ok"

ValidateGridCoverage(paths, height, width) ==
    ScanCoverage(Flatten(paths), 1, {}, height, width)

\* the constructor with the total-mismatch check moved before the negative-sum check
PuzzleInitMismatchFirst(rs, cs, paths) ==
    IF rs = <<>> \/ cs = <<>> THEN "EmptySums"
    ELSE IF SumSeq(rs) # SumSeq(cs) THEN "SumMismatch"
    ELSE IF (\E i \in 1..Len(rs) : rs[i] < 0) \/ (\E j \in 1..Len(cs) : cs[j] < 0)
         THEN "NegativeSum"
    ELSE IF \E i \in 1..Len(rs) : rs[i] > Len(cs) THEN "RowSumExceedsWidth"
    ELSE IF \E j \in 1..Len(cs) : cs[j] > Len(rs) THEN "ColSumExceedsHeight"
    ELSE IF paths = <<>> THEN "NoThermometers"
    ELSE IF CreateThermometers(paths, 1) # "ok" THEN CreateThermometers(paths, 1)
    ELSE ValidateGridCoverage(paths, Len(rs), Len(cs))

\* the error ThermometerPuzzle(row_sums, col_sums, thermometer_paths) raises, or "ok"
PuzzleInit(rs, cs, paths) ==
    IF rs = <<>> \/ cs = <<>> THEN "EmptySums"
    ELSE IF (\E i \in 1..Len(rs) : rs[i] < 0) \/ (\E j \in 1..Len(cs) : cs[j] < 0)
         THEN "NegativeSum"
    ELSE IF SumSeq(rs) # SumSeq(cs) THEN "SumMismatch"
    ELSE IF \E i \in 1..Len(rs) : rs[i] > Len(cs) THEN "RowSumExceedsWidth"
    ELSE IF \E j \in 1..Len(cs) : cs[j] > Len(rs) THEN "ColSumExceedsHeight"
    ELSE IF paths = <<>> THEN "NoThermometers"
    ELSE IF CreateThermometers(paths, 1) # "ok" THEN CreateThermometers(paths, 1)
    ELSE ValidateGridCoverage(paths, Len(rs), Len(cs))

\* no puzzle object: the constructor has not run, or it raised
NoPuzzle == [height |-> 0, width |-> 0, row_sums |-> <<>>, col_sums |-> <<>>,
             thermometers |-> <<>>]

NewPuzzle(rs, cs, paths) ==
    [height |-> Len(rs), width |-> Len(cs), row_sums |-> rs, col_sums |-> cs,
     thermometers |-> [i \in 1..Len(paths) |-> [id |-> i - 1, positions |-> paths[i]]]]


(***************************************************************************)
(* Thermometer.is_valid_fill_state and ThermometerPuzzle.is_valid_solution *)
(* (puzzle.py 35-47, 145-164): the solver-free validator.                  *)
(***************************************************************************)
\* list.index(pos): 0-based position of the first occurrence
Index(positions, pos) ==
    (CHOOSE i \in 1..Len(positions) :
        /\ positions[i] = pos
        /\ \A j \in 1..(i - 1) : positions[j] # pos) - 1

\* the fill check asking only for a contiguous run, not one starting at the bulb
IsValidFillStateUnanchored(positions, filled_positions) ==
    LET idx == {i \in 1..Len(positions) : positions[i] \in filled_positions}
    IN  \A i, j \in idx : \A m \in i..j : m \in idx

IsValidFillState(positions, filled_positions) ==
    LET InFilled(pos) == pos \in filled_positions
        our_filled == SelectSeq(positions, InFilled)
        filled_indices == [k \in 1..Len(our_filled) |-> Index(positions, our_filled[k])]
    IN  IF our_filled = <<>> THEN TRUE
        \* sorted(filled_indices) == list(range(len(filled_indices)))
        ELSE /\ Range(filled_indices) = 0..(Len(filled_indices) - 1)
             /\ Cardinality(Range(filled_indices)) = Len(filled_indices)

IsValidSolution(pz, filled_positions) ==
    /\ \A t \in 1..Len(pz.thermometers) :
           IsValidFillState(pz.thermometers[t].positions, filled_positions)
    /\ \A row \in 0..(pz.height - 1) :
           Cardinality({pos \in filled_positions : pos[1] = row}) = pz.row_sums[row + 1]
    /\ \A col \in 0..(pz.width - 1) :
           Cardinality({pos \in filled_positions : pos[2] = col}) = pz.col_sums[col + 1]

(***************************************************************************)
(* ThermometersSolver.__init__ (solver.py 14-86): one boolean variable per *)
(* cell and the linear constraints, in the order they are added.  A linear *)
(* constraint is  sum(pos) - sum(neg)  op  rhs.                            *)
(***************************************************************************)
SetupVariables(pz) == (0..(pz.height - 1)) \X (0..(pz.width - 1))

RowSumConstraints(pz) ==
    [row \in 1..pz.height |->
        [pos |-> {<<row - 1, col>> : col \in 0..(pz.width - 1)}, neg |-> {},
         op |-> "==", rhs |-> pz.row_sums[row]]]

ColSumConstraints(pz) ==
    [col \in 1..pz.width |->
        [pos |-> {<<row, col - 1>> : row \in 0..(pz.height - 1)}, neg |-> {},
         op |-> "==", rhs |-> pz.col_sums[col]]]

\* the ordering constraint left out: a constraint every assignment satisfies
PairConstraintVacuous(positions, i) ==
    [pos |-> {}, neg |-> {}, op |-> "<=", rhs |-> 0]

\* the ordering constraint written the wrong way round: current_var <= next_var
PairConstraintReversed(positions, i) ==
    [pos |-> {positions[i]}, neg |-> {positions[i + 1]}, op |-> "<=", rhs |-> 0]

\* next_var <= current_var for the consecutive pair (i, i + 1) of a path
PairConstraint(positions, i) ==
    [pos |-> {positions[i + 1]}, neg |-> {positions[i]}, op |-> "<=", rhs |-> 0]

RECURSIVE ThermometerConstraintsFirstPair(_, _)
\* the loop over the pairs of a path stopping after its first pair
ThermometerConstraintsFirstPair(pz, t) ==
    IF t > Len(pz.thermometers) THEN <<>>
    ELSE LET positions == pz.thermometers[t].positions
         IN  [i \in 1..(IF Len(positions) > 1 THEN 1 ELSE 0) |-> PairConstraint(positions, i)]
             \o ThermometerConstraintsFirstPair(pz, t + 1)

RECURSIVE ThermometerConstraints(_, _)
\* _add_thermometer_constraints from thermometer t on
ThermometerConstraints(pz, t) ==
    IF t > Len(pz.thermometers) THEN <<>>
    ELSE LET positions == pz.thermometers[t].positions
         IN  [i \in 1..(Len(positions) - 1) |-> PairConstraint(positions, i)]
             \o ThermometerConstraints(pz, t + 1)

InitialConstraints(pz) ==
    RowSumConstraints(pz) \o ColSumConstraints(pz) \o ThermometerConstraints(pz, 1)

(***************************************************************************)
(* The external MIP engine (pywraplp.Solver.Solve): what it may answer for *)
(* a set of 0/1 variables and a list of linear constraints.                *)
(***************************************************************************)
Assignments(vars) == [vars -> {0, 1}]

Lhs(a, c) == Cardinality({v \in c.pos : a[v] = 1}) - Cardinality({v \in c.neg : a[v] = 1})

Satisfies(a, c) == IF c.op = "==" THEN Lhs(a, c) = c.rhs ELSE Lhs(a, c) <= c.rhs

FeasibleAssignments(vars, cons) ==
    {a \in Assignments(vars) : \A k \in 1..Len(cons) : Satisfies(a, cons[k])}

NoAssignment == [dummy \in {"none"} |-> 0]

\* the (status, assignment) pairs one Solve() call can end with.  An engine that
\* decides the problem answers OPTIMAL with a satisfying assignment (there is no
\* objective, so every satisfying assignment is optimal) or INFEASIBLE when there is
\* none.  An engine that may also give up (a time limit, a numerical failure)
\* answers FEASIBLE with an assignment it has not proven optimal, or ends without
\* any conclusion.
EngineAnswers(vars, cons, mode) ==
    LET feas == FeasibleAssignments(vars, cons)
    IN  {[status |-> "OPTIMAL", values |-> a] : a \in feas}
        \cup (IF feas = {} THEN {[status |-> "INFEASIBLE", values |-> NoAssignment]} ELSE {})
        \cup (IF mode = "any"
              THEN {[status |-> "FEASIBLE", values |-> a] : a \in feas}
                   \cup {[status |-> st, values |-> NoAssignment] :
                            st \in {"ABNORMAL", "NOT_SOLVED"}}
              ELSE {})

(***************************************************************************)
(* ThermometersSolver.solve (solver.py 88-128) on one engine answer.       *)
(***************************************************************************)
ExtractSolution(vars, values) == {pos \in vars : values[pos] = 1}

\* solve() with a FEASIBLE status handled like OPTIMAL
SolveOutcomeFeasibleAccepted(vars, ans) ==
    IF ans.status \in {"OPTIMAL", "FEASIBLE"}
    THEN [kind |-> "set", value |-> ExtractSolution(vars, ans.values)]
    ELSE [kind |-> "none", value |-> {}]

\* solve() with an empty extracted set reported like "no solution"
SolveOutcomeEmptyIsNone(vars, ans) ==
    IF ans.status = "OPTIMAL" /\ ExtractSolution(vars, ans.values) # {}
    THEN [kind |-> "set", value |-> ExtractSolution(vars, ans.values)]
    ELSE IF ans.status = "FEASIBLE"
    THEN [kind |-> "raised", value |-> {}]
    ELSE [kind |-> "none", value |-> {}]

SolveOutcome(vars, ans) ==
    IF ans.status = "OPTIMAL"
    THEN [kind |-> "set", value |-> ExtractSolution(vars, ans.values)]
    ELSE IF ans.status = "FEASIBLE"
    THEN [kind |-> "raised", value |-> {}]
    ELSE [kind |-> "none", value |-> {}]

(***************************************************************************)
(* ThermometersSolver._add_solution_cut (solver.py 186-198).               *)
(***************************************************************************)
\* the cut with its right-hand side off by one: it excludes nothing
AddSolutionCutWeak(cons, solution) ==
    IF solution # {}
    THEN Append(cons, [pos |-> solution, neg |-> {}, op |-> "<=",
                       rhs |-> Cardinality(solution)])
    ELSE cons

\* the cut written over the newest constraint instead of being added after it
AddSolutionCutReplacingLast(cons, solution) ==
    IF solution # {}
    THEN Append(SubSeq(cons, 1, Len(cons) - 1),
                [pos |-> solution, neg |-> {}, op |-> "<=",
                 rhs |-> Cardinality(solution) - 1])
    ELSE cons

\* the cut with its right-hand side one too small: it also excludes smaller fillings
AddSolutionCutStrict(cons, solution) ==
    IF solution # {}
    THEN Append(cons, [pos |-> solution, neg |-> {}, op |-> "<=",
                       rhs |-> Cardinality(solution) - 2])
    ELSE cons

AddSolutionCut(cons, solution) ==
    IF solution # {}
    THEN Append(cons, [pos |-> solution, neg |-> {}, op |-> "<=",
                       rhs |-> Cardinality(solution) - 1])
    ELSE cons

\* Python truthiness of max_num_solutions: None and 0 are both false
Truthy(m) == m # None /\ m[1] # 0

\* the duplicate check left out
SeenBeforeNever(solution, sols) == FALSE

\* "solution in solutions" (solver.py 163)
SeenBefore(solution, sols) == \E k \in 1..Len(sols) : sols[k] = solution

\* the maximum check with a missing maximum taken as 1
ReachedMaxNoneIsOne(m, sols) == Len(sols) >= (IF m = None THEN 1 ELSE m[1])

\* "max_num_solutions and len(solutions) >= max_num_solutions" (solver.py 172)
ReachedMax(m, sols) == Truthy(m) /\ Len(sols) >= m[1]


(***************************************************************************)
(* Inputs.  The constructor is exercised on arbitrary small arguments      *)
(* (InitBuild); the solver on every puzzle of at most MaxCells cells whose *)
(* thermometers tile the grid (Init), each tiling listed with the          *)
(* thermometer holding the least uncovered cell first.                     *)
(***************************************************************************)
BuildSums == SeqsUpTo(-1..MaxDim, MaxDim)

BuildCells == (0..MaxDim) \X (0..MaxDim)

BuildPaths == SeqsUpTo(SeqsUpTo(BuildCells, MaxPathLen), MaxPaths)

GridCells(h, w) == (0..(h - 1)) \X (0..(w - 1))

RECURSIVE ChainsFrom(_, _)
\* the chains of adjacent distinct cells of R that extend chain p
ChainsFrom(p, R) ==
    {p} \cup UNION {ChainsFrom(Append(p, q), R \ {q}) :
                      q \in {x \in R : Adjacent(p[Len(p)], x)}}

Chains(R) == UNION {ChainsFrom(<<b>>, R \ {b}) : b \in R}

LeastCell(R) == CHOOSE x \in R : \A y \in R : x[1] < y[1] \/ (x[1] = y[1] /\ x[2] <= y[2])

RECURSIVE Tilings(_)
Tilings(R) ==
    IF R = {} THEN {<<>>}
    ELSE UNION {{<<p>> \o rest : rest \in Tilings(R \ Range(p))} :
                  p \in {c \in Chains(R) : LeastCell(R) \in Range(c)}}

Shapes == {hw \in (1..MaxCells) \X (1..MaxCells) : hw[1] * hw[2] <= MaxCells}

SolverInputs ==
    UNION {{[rs |-> sums[1], cs |-> sums[2], paths |-> t] :
                sums \in {x \in [1..hw[1] -> 0..hw[2]] \X [1..hw[2] -> 0..hw[1]] :
                             SumSeq(x[1]) = SumSeq(x[2])},
                t \in Tilings(GridCells(hw[1], hw[2]))} : hw \in Shapes}

MaxArgs == {None} \cup {<<k>> : k \in 0..MaxMax}

\* positions outside the grid a caller may put in a candidate: one that lies in no
\* row and no column of the grid, one that lies in column 0 below the last row
OutsideCells(pz) == {<<pz.height, pz.width>>, <<pz.height, 0>>}

\* the candidate sets handed to validate_solution
CandidateSets(pz) == SUBSET (SetupVariables(pz) \cup OutsideCells(pz))

(***************************************************************************)
(* State.                                                                  *)
(***************************************************************************)
VARIABLES
    row_sums, col_sums, thermometer_paths,  \* the constructor's arguments
    construction,   \* "pending", "ok" or the error ThermometerPuzzle() raised
    puzzle,         \* the ThermometerPuzzle object, NoPuzzle until built
    engine,         \* "exact": Solve() decides every problem; "any": it may give up
    solver,         \* "none" or "ready": the ThermometersSolver instance
    cell_vars,      \* self.cell_vars (its keys)
    constraints,    \* the engine's constraint list, in insertion order
    pc,             \* "idle", or "loop" inside solve_iterative's while loop
    max_num_solutions, solutions,   \* solve_iterative's argument and local list
    status,         \* the status of the latest self.solver.Solve()
    found,          \* what the latest self.solve() gave: [kind, value]
    ret,            \* what the latest finished public call gave: [op, kind, value, max, nth]
    calls,          \* public calls started on the instance
    iterLog,        \* the lists returned by the finished solve_iterative calls, in order
    exhaustedSince  \* the number of the first solve_iterative call without a maximum
                    \* that returned its list, 0 while there is none

vars == <<row_sums, col_sums, thermometer_paths, construction, puzzle, engine, solver,
          cell_vars, constraints, pc, max_num_solutions, solutions, status, found,
          ret, calls, iterLog, exhaustedSince>>

inputVars == <<row_sums, col_sums, thermometer_paths, engine>>

NoRet == [op |-> "none", kind |-> "none", value |-> <<>>, max |-> None, nth |-> 0]

InitRest ==
    /\ construction = "pending"
    /\ puzzle = NoPuzzle
    /\ solver = "none"
    /\ cell_vars = {}
    /\ constraints = <<>>
    /\ pc = "idle"
    /\ max_num_solutions = None
    /\ solutions = <<>>
    /\ status = "NOT_SOLVED"
    /\ found = [kind |-> "nocall", value |-> {}]
    /\ ret = NoRet
    /\ calls = 0
    /\ iterLog = <<>>
    /\ exhaustedSince = 0

InitInputs ==
    \E in \in SolverInputs :
        /\ row_sums = in.rs
        /\ col_sums = in.cs
        /\ thermometer_paths = in.paths

Init == InitInputs /\ engine = "exact" /\ InitRest

InitAnyStatus == InitInputs /\ engine = "any" /\ InitRest

\* the 4x4 example of the test suite (test_solve_complex_puzzle), its seven
\* thermometers given cell by cell
ComplexPuzzle ==
    [rs |-> <<1, 3, 2, 1>>, cs |-> <<1, 2, 2, 2>>,
     paths |-> << <<<<0, 2>>, <<0, 1>>, <<0, 0>>>>,
                  <<<<0, 3>>, <<1, 3>>>>,
                  <<<<1, 0>>, <<2, 0>>>>,
                  <<<<1, 1>>, <<1, 2>>>>,
                  <<<<2, 1>>, <<2, 2>>, <<2, 3>>>>,
                  <<<<3, 1>>, <<3, 0>>>>,
                  <<<<3, 3>>, <<3, 2>>>> >>]

InitComplex ==
    /\ row_sums = ComplexPuzzle.rs
    /\ col_sums = ComplexPuzzle.cs
    /\ thermometer_paths = ComplexPuzzle.paths
    /\ engine = "exact"
    /\ InitRest

InitBuild ==
    /\ row_sums \in BuildSums
    /\ col_sums \in BuildSums
    /\ thermometer_paths \in BuildPaths
    /\ engine = "exact"
    /\ InitRest

(***************************************************************************)
(* Actions.                                                                *)
(***************************************************************************)
\* ThermometerPuzzle(row_sums, col_sums, thermometer_paths)
Construct ==
    /\ construction = "pending"
    /\ construction' = PuzzleInit(row_sums, col_sums, thermometer_paths)
    /\ puzzle' = IF construction' = "ok"
                 THEN NewPuzzle(row_sums, col_sums, thermometer_paths)
                 ELSE NoPuzzle
    /\ UNCHANGED <<inputVars, solver, cell_vars, constraints, pc,
                   max_num_solutions, solutions, status, found, ret, calls, iterLog, exhaustedSince>>

\* ThermometersSolver(puzzle)
CreateSolver ==
    /\ construction = "ok"
    /\ solver = "none"
    /\ solver' = "ready"
    /\ cell_vars' = SetupVariables(puzzle)
    /\ constraints' = InitialConstraints(puzzle)
    /\ UNCHANGED <<inputVars, construction, puzzle, pc,
                   max_num_solutions, solutions, status, found, ret, calls, iterLog, exhaustedSince>>

\* a public solver.solve() call
CallSolve ==
    /\ solver = "ready" /\ pc = "idle" /\ calls < MaxCalls
    /\ \E ans \in EngineAnswers(cell_vars, constraints, engine) :
          /\ status' = ans.status
          /\ found' = SolveOutcome(cell_vars, ans)
          /\ ret' = [op |-> "solve", kind |-> found'.kind, value |-> <<found'.value>>,
                     max |-> None, nth |-> calls + 1]
    /\ calls' = calls + 1
    /\ UNCHANGED <<inputVars, construction, puzzle, solver, cell_vars, constraints, pc,
                   max_num_solutions, solutions, iterLog, exhaustedSince>>

\* solver.solve_iterative(max_num_solutions = m) is entered: solutions = []
CallSolveIterative ==
    /\ solver = "ready" /\ pc = "idle" /\ calls < MaxCalls
    /\ \E m \in MaxArgs : max_num_solutions' = m
    /\ solutions' = <<>>
    /\ pc' = "loop"
    /\ calls' = calls + 1
    /\ UNCHANGED <<inputVars, construction, puzzle, engine, solver, cell_vars,
                   constraints, status, found, ret, iterLog, exhaustedSince>>

\* the history of calls without a maximum: the number of the first one that returned
FirstUnbounded(since, m, nth) == IF since = 0 /\ m = None THEN nth ELSE since

IterRet(kind, sols) ==
    [op |-> "solve_iterative", kind |-> kind, value |-> sols,
     max |-> max_num_solutions, nth |-> calls]

\* one pass of solve_iterative's while loop (solver.py 150-179); the locals are gone
\* once the call has returned or raised
IterStep ==
    /\ pc = "loop"
    /\ \E ans \in EngineAnswers(cell_vars, constraints, engine) :
          LET out == SolveOutcome(cell_vars, ans)
              sols == Append(solutions, out.value)
          IN  /\ status' = ans.status
                  /\ found' = out
              /\ IF out.kind = "raised"
                 THEN \* solve() raised: the exception leaves solve_iterative
                      /\ ret' = IterRet("raised", <<>>)
                      /\ pc' = "idle"
                      /\ solutions' = <<>> /\ max_num_solutions' = None
                      /\ UNCHANGED <<constraints, iterLog, exhaustedSince>>
                 ELSE IF out.kind = "none"
                 THEN \* break; return solutions
                      /\ ret' = IterRet("list", solutions)
                      /\ iterLog' = Append(iterLog, solutions)
                      /\ exhaustedSince' = FirstUnbounded(exhaustedSince, max_num_solutions, calls)
                      /\ pc' = "idle"
                      /\ solutions' = <<>> /\ max_num_solutions' = None
                      /\ UNCHANGED constraints
                 ELSE IF SeenBefore(out.value, solutions)
                 THEN \* raise RuntimeError("Duplicate solution found ...")
                      /\ ret' = IterRet("duplicate", <<>>)
                      /\ pc' = "idle"
                      /\ solutions' = <<>> /\ max_num_solutions' = None
                      /\ UNCHANGED <<constraints, iterLog, exhaustedSince>>
                 ELSE IF ReachedMax(max_num_solutions, sols)
                 THEN \* solutions.append(solution); break; return solutions
                      /\ ret' = IterRet("list", sols)
                      /\ iterLog' = Append(iterLog, sols)
                      /\ exhaustedSince' = FirstUnbounded(exhaustedSince, max_num_solutions, calls)
                      /\ pc' = "idle"
                      /\ solutions' = <<>> /\ max_num_solutions' = None
                      /\ UNCHANGED constraints
                 ELSE \* solutions.append(solution); self._add_solution_cut(solution)
                      /\ solutions' = sols
                      /\ constraints' = AddSolutionCut(constraints, out.value)
                      /\ UNCHANGED <<ret, pc, iterLog, max_num_solutions, exhaustedSince>>
    /\ UNCHANGED <<inputVars, construction, puzzle, solver, cell_vars, calls>>

\* solver.validate_solution(filled_positions): the puzzle's is_valid_solution on the
\* argument, the solver untouched; the caller gets the boolean
ValidateSolution ==
    /\ solver = "ready" /\ pc = "idle" /\ calls < MaxCalls
    /\ \E result \in {IsValidSolution(puzzle, filled_positions) :
                          filled_positions \in CandidateSets(puzzle)} :
          ret' = [op |-> "validate_solution", kind |-> "bool", value |-> <<result>>,
                  max |-> None, nth |-> calls + 1]
    /\ calls' = calls + 1
    /\ UNCHANGED <<inputVars, construction, puzzle, solver, cell_vars, constraints, pc,
                   max_num_solutions, solutions, status, found, iterLog, exhaustedSince>>

\* solver.get_solver_info(): the sizes of the problem, read from the engine
GetSolverInfo ==
    /\ solver = "ready" /\ pc = "idle" /\ calls < MaxCalls
    /\ ret' = [op |-> "get_solver_info", kind |-> "info",
               value |-> <<[num_variables |-> Cardinality(cell_vars),
                            num_constraints |-> Len(constraints),
                            num_thermometers |-> Len(puzzle.thermometers),
                            total_cells |-> puzzle.height * puzzle.width]>>,
               max |-> None, nth |-> calls + 1]
    /\ calls' = calls + 1
    /\ UNCHANGED <<inputVars, construction, puzzle, solver, cell_vars, constraints, pc,
                   max_num_solutions, solutions, status, found, iterLog, exhaustedSince>>

Next ==
    \/ Construct \/ CreateSolver \/ CallSolve \/ CallSolveIterative \/ IterStep
    \/ ValidateSolution \/ GetSolverInfo

\* the solver on tiled puzzles, the engine deciding every problem
Spec == Init /\ [][Next]_vars

\* the same, the engine free to end with any status
SpecAnyStatus == InitAnyStatus /\ [][Next]_vars

\* the solver on the 4x4 example, the engine deciding every problem
SpecComplex == InitComplex /\ [][Next]_vars

\* the constructor on arbitrary small arguments
SpecBuild == InitBuild /\ [][Next]_vars


(***************************************************************************)
(* Properties.                                                             *)
(***************************************************************************)
\* the cells of the cuts added so far: the constraints after the constructor's own
CutSets ==
    {constraints[k].pos : k \in (Len(InitialConstraints(puzzle)) + 1)..Len(constraints)}

\* the in-grid filled-cell sets the validator accepts
ValidSolutions(pz) == {S \in SUBSET SetupVariables(pz) : IsValidSolution(pz, S)}

IterReturned == ret.op = "solve_iterative" /\ ret.kind = "list"

\* C1: whenever solve returns a filled-cell set (to a caller or inside
\* solve_iterative), is_valid_solution accepts it: the row and column counts meet
\* their targets and every thermometer is filled as a prefix from its bulb.
C1_SolveReturnsValidSolution ==
    found.kind = "set" => IsValidSolution(puzzle, found.value)

\* a set of two or more cells was returned after a cut had been added
C1_Witness ==
    /\ found.kind = "set"
    /\ Cardinality(found.value) >= 2
    /\ CutSets # {}
    /\ \E t \in 1..Len(puzzle.thermometers) : Len(puzzle.thermometers[t].positions) >= 2

\* C2: the filled-cell sets in the list one solve_iterative call returns are
\* pairwise distinct.
C2_ReturnedSetsDistinct ==
    IterReturned =>
        \A i, j \in 1..Len(ret.value) : i # j => ret.value[i] # ret.value[j]

\* a call returned two sets
C2_Witness == IterReturned /\ Len(ret.value) >= 2

\* C3: solve_iterative(max_num_solutions = k), k a non-negative integer, returns at
\* most k sets (the engine deciding every problem it is given).
C3_AtMostMax ==
    (IterReturned /\ ret.max # None) => Len(ret.value) <= ret.max[1]

\* C4: on a fresh instance, solve_iterative with no maximum, or with one above the
\* number of solutions, returns exactly the sets the validator accepts, each once
\* (the engine deciding every problem it is given).
C4_FreshEnumerationComplete ==
    (/\ ret.op = "solve_iterative"
     /\ ret.nth = 1
     /\ (ret.max = None \/ ret.max[1] > Cardinality(ValidSolutions(puzzle))))
    => /\ ret.kind = "list"
       /\ Range(ret.value) = ValidSolutions(puzzle)
       /\ Len(ret.value) = Cardinality(ValidSolutions(puzzle))

\* C5: once the instance holds an exclusion cut for a set S, no later solve
\* (public, or inside solve_iterative) returns exactly S: no step that runs solve
\* ends with a found set that was among the cuts when the step began.
C5_CutSetNeverReturnedAgain ==
    [][(found'.kind = "set" /\ found'.value \in CutSets) => ~(CallSolve \/ IterStep)]_vars

\* with a cut in place, a later public solve returned another set
C5_Witness ==
    /\ CutSets # {}
    /\ ret.op = "solve" /\ ret.kind = "set"
    /\ found.value \notin CutSets

\* C6: of two solve_iterative calls on one instance, the later returns no set the
\* earlier returned (the engine deciding every problem it is given).
C6_LaterCallsReturnNewSets ==
    \A i, j \in 1..Len(iterLog) :
        i < j => Range(iterLog[i]) \cap Range(iterLog[j]) = {}

(***************************************************************************)
(* C7: which error the constructor raises.  The violated checks are stated *)
(* on the arguments, not by running the constructor.                       *)
(***************************************************************************)
\* the error kinds of the specification, several messages of the code sharing one
Kind(e) ==
    CASE e \in {"RowSumExceedsWidth", "ColSumExceedsHeight"} -> "SumExceedsDimension"
      [] e \in {"DuplicatePositions", "NotAdjacent"} -> "DisconnectedThermometer"
      [] OTHER -> e

HasDuplicate(path) == \E i, j \in 1..Len(path) : i # j /\ path[i] = path[j]

HasGap(path) == \E i \in 1..(Len(path) - 1) : ~Adjacent(path[i], path[i + 1])

CheckKinds ==
    <<"EmptySums", "NegativeSum", "SumMismatch", "SumExceedsDimension", "NoThermometers",
      "EmptyPath", "DisconnectedThermometer", "OutOfBounds", "Overlap",
      "IncompleteCoverage">>

\* whether the arguments violate the n-th check of the list
Violated(n) ==
    LET rs == row_sums
        cs == col_sums
        ps == thermometer_paths
    IN  CASE n = 1 -> rs = <<>> \/ cs = <<>>
          [] n = 2 -> \E x \in Range(rs) \cup Range(cs) : x < 0
          [] n = 3 -> SumSeq(rs) # SumSeq(cs)
          [] n = 4 -> (\E x \in Range(rs) : x > Len(cs)) \/ (\E x \in Range(cs) : x > Len(rs))
          [] n = 5 -> ps = <<>>
          [] n = 6 -> \E k \in 1..Len(ps) : ps[k] = <<>>
          [] n = 7 -> \E k \in 1..Len(ps) : HasDuplicate(ps[k]) \/ HasGap(ps[k])
          [] n = 8 -> \E k \in 1..Len(ps) : \E c \in Range(ps[k]) :
                          ~InBounds(c, Len(rs), Len(cs))
          [] n = 9 -> \E k, l \in 1..Len(ps) :
                          k # l /\ Range(ps[k]) \cap Range(ps[l]) # {}
          [] OTHER -> \E c \in GridCells(Len(rs), Len(cs)) :
                          \A k \in 1..Len(ps) : c \notin Range(ps[k])

RECURSIVE FirstViolatedFrom(_)
FirstViolatedFrom(n) ==
    IF n > Len(CheckKinds) THEN "ok"
    ELSE IF Violated(n) THEN CheckKinds[n]
    ELSE FirstViolatedFrom(n + 1)

\* the first violated check of the fixed list, "ok" when none is violated
FirstViolated == FirstViolatedFrom(1)

\* C7 as stated: the error is that of the first violated check in the fixed order
\* empty sums, negative sum, mismatch, sum over dimension, no paths, empty path,
\* non-adjacent or duplicate cells, out of bounds, overlap, incomplete coverage.
C7_FixedPrecedence ==
    construction # "pending" => Kind(construction) = FirstViolated

PathFault(path) ==
    IF path = <<>> THEN "EmptyPath"
    ELSE IF HasDuplicate(path) THEN "DuplicatePositions"
    ELSE IF HasGap(path) THEN "NotAdjacent"
    ELSE "ok"

CellFault(cells, k, height, width) ==
    IF ~InBounds(cells[k], height, width) THEN "OutOfBounds"
    ELSE IF \E j \in 1..(k - 1) : cells[j] = cells[k] THEN "Overlap"
    ELSE "ok"

\* the error the amended precedence predicts
ExpectedError ==
    LET rs == row_sums
        cs == col_sums
        ps == thermometer_paths
        cells == Flatten(ps)
        badPaths == {k \in 1..Len(ps) : PathFault(ps[k]) # "ok"}
        badCells == {k \in 1..Len(cells) : CellFault(cells, k, Len(rs), Len(cs)) # "ok"}
        Least(I) == CHOOSE k \in I : \A l \in I : k <= l
    IN  IF \E n \in 1..5 : Violated(n)
        THEN IF FirstViolated = "SumExceedsDimension"
             THEN IF \E x \in Range(rs) : x > Len(cs)
                  THEN "RowSumExceedsWidth" ELSE "ColSumExceedsHeight"
             ELSE FirstViolated
        ELSE IF badPaths # {} THEN PathFault(ps[Least(badPaths)])
        ELSE IF badCells # {} THEN CellFault(cells, Least(badCells), Len(rs), Len(cs))
        ELSE IF Cardinality(Range(cells)) # Len(rs) * Len(cs) THEN "IncompleteCoverage"
        ELSE "ok"

\* C7, amended: the five checks on the sums and on the path list come in the fixed
\* order; then the paths are examined in list order and the first one that is empty,
\* repeats a cell or has a non-adjacent step decides the error; then the cells are
\* scanned in thermometer order and the first one out of bounds or already covered
\* decides the error; incomplete coverage comes last.
C7_PrecedenceByPathAndCell ==
    construction # "pending" => construction = ExpectedError

\* a defective first path was reported although a later path is empty, and an
\* overlap was reported although a later cell is out of bounds
C7_Witness ==
    /\ construction \in {"Overlap", "NotAdjacent"}
    /\ \/ /\ construction = "NotAdjacent"
          /\ Len(thermometer_paths) = 2 /\ thermometer_paths[2] = <<>>
       \/ /\ construction = "Overlap"
          /\ \E c \in Range(Flatten(thermometer_paths)) :
                ~InBounds(c, Len(row_sums), Len(col_sums))

\* C8: every constructed puzzle has positive dimensions, sums within the
\* dimensions and with equal totals, at least one thermometer, each thermometer a
\* non-empty chain of distinct adjacent cells, and the thermometers tile the grid.
C8_ConstructedPuzzleInvariant ==
    construction = "ok" =>
        LET th == puzzle.thermometers
            grid == GridCells(puzzle.height, puzzle.width)
        IN  /\ puzzle.height > 0 /\ puzzle.width > 0
            /\ Len(puzzle.row_sums) = puzzle.height /\ Len(puzzle.col_sums) = puzzle.width
            /\ \A x \in Range(puzzle.row_sums) : 0 <= x /\ x <= puzzle.width
            /\ \A x \in Range(puzzle.col_sums) : 0 <= x /\ x <= puzzle.height
            /\ SumSeq(puzzle.row_sums) = SumSeq(puzzle.col_sums)
            /\ Len(th) >= 1
            /\ \A t \in 1..Len(th) :
                  /\ th[t].positions # <<>>
                  /\ ~HasDuplicate(th[t].positions)
                  /\ ~HasGap(th[t].positions)
                  /\ Range(th[t].positions) \subseteq grid
            /\ \A t, u \in 1..Len(th) :
                  t # u => Range(th[t].positions) \cap Range(th[u].positions) = {}
            /\ UNION {Range(th[t].positions) : t \in 1..Len(th)} = grid

\* a 2x2 puzzle of two two-cell thermometers was constructed
C8_Witness ==
    /\ construction = "ok"
    /\ puzzle.height = 2 /\ puzzle.width = 2
    /\ Len(puzzle.thermometers) = 2

\* C9 as stated: an OPTIMAL or FEASIBLE status is a fatal failure of solve, and a
\* proven infeasibility gives "no solution".
C9_OptimalOrFeasibleIsFatal ==
    found.kind # "nocall" =>
        /\ status \in {"OPTIMAL", "FEASIBLE"} => found.kind = "raised"
        /\ status = "INFEASIBLE" => found.kind = "none"

\* C9, amended: solve returns the extracted set on OPTIMAL, returns "no solution"
\* on INFEASIBLE, and raises on FEASIBLE only; a public call hands the same outcome
\* to its caller and solve_iterative lets the error through (ret being that of a
\* solve or solve_iterative call).
C9_ThreeOutcomes ==
    found.kind # "nocall" =>
        /\ status = "OPTIMAL" => found.kind = "set" /\ found.value \subseteq cell_vars
        /\ status = "INFEASIBLE" => found.kind = "none"
        /\ status = "FEASIBLE" => found.kind = "raised"
        /\ (found.kind = "raised" /\ ret.op \in {"solve", "solve_iterative"})
               => ret.kind = "raised"
        /\ (ret.op = "solve" /\ ret.nth = calls /\ pc = "idle") => ret.kind = found.kind

\* the engine answered FEASIBLE and solve raised
C9_Witness == status = "FEASIBLE" /\ found.kind = "raised" /\ ret.kind = "raised"

\* C10: solve gives "no solution" only on a proven infeasibility, and
\* solve_iterative ends its enumeration normally only on one or on its maximum.
C10_NoSolutionOnlyWhenInfeasible ==
    found.kind = "none" => status = "INFEASIBLE"

\* every row and column target of the puzzle is zero
AllTargetsZero(pz) ==
    /\ \A i \in 1..Len(pz.row_sums) : pz.row_sums[i] = 0
    /\ \A j \in 1..Len(pz.col_sums) : pz.col_sums[j] = 0

\* C11: solve tells "no solution" from the empty filled-cell set (the engine
\* deciding every problem it is given): on a puzzle whose targets are all zero it
\* returns the empty set, which the validator accepts, and on a puzzle with no valid
\* filling it returns the separate no-solution value and raises nothing.
C11_EmptySetIsNotNoSolution ==
    (solver = "ready" /\ found.kind # "nocall") =>
        /\ AllTargetsZero(puzzle) =>
              /\ found.kind = "set" /\ found.value = {}
              /\ IsValidSolution(puzzle, {})
        /\ ValidSolutions(puzzle) = {} => found.kind = "none"

\* a public solve on an all-zero puzzle of two or more cells returned the empty set
C11_Witness ==
    /\ AllTargetsZero(puzzle)
    /\ Cardinality(cell_vars) >= 2
    /\ ret.op = "solve" /\ ret.kind = "set" /\ ret.value = <<{}>>

\* the filling the test suite expects for the 4x4 example
ComplexSolution ==
    {<<0, 3>>, <<1, 0>>, <<1, 1>>, <<1, 2>>, <<2, 1>>, <<2, 2>>, <<3, 3>>}

\* C12: on the 4x4 example the encoded problem (rows, columns, thermometers) has
\* exactly one satisfying assignment, the expected filling; solve on the fresh
\* instance returns exactly that set and solve_iterative(max_num_solutions = 3) on
\* the fresh instance returns the list holding that one set.
C12_ComplexPuzzleUnique ==
    solver = "ready" =>
        /\ {ExtractSolution(cell_vars, a) :
               a \in FeasibleAssignments(cell_vars, InitialConstraints(puzzle))}
             = {ComplexSolution}
        /\ Cardinality(FeasibleAssignments(cell_vars, InitialConstraints(puzzle))) = 1
        /\ (ret.op = "solve" /\ ret.nth = 1)
              => ret.kind = "set" /\ ret.value = <<ComplexSolution>>
        /\ (ret.op = "solve_iterative" /\ ret.nth = 1 /\ ret.max = <<3>>)
              => ret.kind = "list" /\ ret.value = <<ComplexSolution>>

\* solve_iterative(max_num_solutions = 3) on the fresh instance returned one set
C12_Witness ==
    /\ row_sums = ComplexPuzzle.rs /\ Cardinality(cell_vars) = 16
    /\ ret.op = "solve_iterative" /\ ret.nth = 1 /\ ret.max = <<3>>
    /\ ret.kind = "list" /\ Len(ret.value) = 1

\* the 2x2 puzzle of test_no_solution_puzzle: two vertical two-cell thermometers
NoSolutionPuzzle ==
    [rs |-> <<1, 1>>, cs |-> <<1, 1>>,
     paths |-> << <<<<0, 0>>, <<1, 0>>>>, <<<<0, 1>>, <<1, 1>>>> >>]

IsNoSolutionPuzzle ==
    /\ row_sums = NoSolutionPuzzle.rs
    /\ col_sums = NoSolutionPuzzle.cs
    /\ thermometer_paths = NoSolutionPuzzle.paths

\* C13: on the 2x2 puzzle with all targets 1 and two vertical thermometers no
\* assignment satisfies the encoded constraints; solve returns "no solution" and
\* solve_iterative returns the empty list.
C13_NoSolutionPuzzle ==
    (IsNoSolutionPuzzle /\ solver = "ready") =>
        /\ FeasibleAssignments(cell_vars, InitialConstraints(puzzle)) = {}
        /\ found.kind \in {"nocall", "none"}
        /\ ret.op = "solve" => ret.kind = "none"
        /\ ret.op = "solve_iterative" => ret.kind = "list" /\ ret.value = <<>>

\* on that puzzle a solve gave "no solution" and then a solve_iterative returned []
C13_Witness ==
    /\ IsNoSolutionPuzzle
    /\ ret.op = "solve_iterative" /\ ret.kind = "list" /\ ret.value = <<>>
    /\ ret.nth = 2 /\ found.kind = "none" /\ status = "INFEASIBLE"

\* the 0-based path indices of a thermometer whose cells are in S
FilledIndices(positions, S) == {i \in 0..(Len(positions) - 1) : positions[i + 1] \in S}

\* C14: for every thermometer and every candidate set S (cells of the grid, of
\* other thermometers and outside the grid included), is_valid_fill_state(S) is
\* True exactly when the path indices whose cells are in S are {0, ..., k-1} for some
\* k from 0 to the length of the path, and the result is that for S restricted to
\* the thermometer's own cells.
C14_FillStateIsPrefix ==
    ret.op = "validate_solution" =>
        \A t \in 1..Len(puzzle.thermometers) : \A S \in CandidateSets(puzzle) :
            LET positions == puzzle.thermometers[t].positions
            IN  /\ IsValidFillState(positions, S)
                     <=> \E k \in 0..Len(positions) : FilledIndices(positions, S) = 0..(k - 1)
                /\ IsValidFillState(positions, S)
                     <=> IsValidFillState(positions, S \cap Range(positions))

\* validate_solution ran on a puzzle with a thermometer of three or more cells and
\* another thermometer beside it
C14_Witness ==
    /\ ret.op = "validate_solution"
    /\ Len(puzzle.thermometers) >= 2
    /\ \E t \in 1..Len(puzzle.thermometers) : Len(puzzle.thermometers[t].positions) >= 3

\* C15: the encoding built by the constructor of the solver is equivalent to the
\* puzzle rules: a 0/1 assignment of the cell variables satisfies every row,
\* column and thermometer constraint exactly when is_valid_solution accepts the set
\* of cells assigned 1, and the pair constraints of one path are satisfied exactly
\* by the assignments filling a prefix of it (the empty and the full one included).
C15_EncodingEquivalentToRules ==
    (solver = "ready" /\ calls = 0) =>
        \A a \in Assignments(cell_vars) :
            /\ (\A k \in 1..Len(constraints) : Satisfies(a, constraints[k]))
                  <=> IsValidSolution(puzzle, ExtractSolution(cell_vars, a))
            /\ \A t \in 1..Len(puzzle.thermometers) :
                  LET positions == puzzle.thermometers[t].positions
                      chain == {k \in 1..Len(constraints) :
                                   \E i \in 1..(Len(positions) - 1) :
                                       constraints[k] = PairConstraint(positions, i)}
                  IN  /\ Cardinality(chain) = Len(positions) - 1
                      /\ (\A k \in chain : Satisfies(a, constraints[k]))
                            <=> \E n \in 0..Len(positions) :
                                   FilledIndices(positions, ExtractSolution(cell_vars, a))
                                     = 0..(n - 1)

\* a solver was built for a solvable puzzle with a thermometer of three cells or more
C15_Witness ==
    /\ solver = "ready" /\ calls = 0
    /\ \E t \in 1..Len(puzzle.thermometers) : Len(puzzle.thermometers[t].positions) >= 3
    /\ \E a \in FeasibleAssignments(cell_vars, constraints) :
          Cardinality(ExtractSolution(cell_vars, a)) >= 2

\* the cut constraints added so far
Cuts == {constraints[k] : k \in (Len(InitialConstraints(puzzle)) + 1)..Len(constraints)}

\* C16 as stated: over all 0/1 assignments of the cell variables the cut for S is
\* violated by the assignment filling exactly S and by no other, strict supersets
\* and strict subsets of S satisfying it.
C16_CutForbidsOnlyExactSet ==
    solver = "ready" =>
        \A c \in Cuts : \A a \in Assignments(cell_vars) :
            ~Satisfies(a, c) <=> ExtractSolution(cell_vars, a) = c.pos

\* C16, amended: the cut for S has the form  sum of S's variables <= |S| - 1  and
\* is violated exactly by the assignments whose filled set contains S, so by S and
\* by its strict supersets, and satisfied by every other assignment, strict subsets
\* included; among the assignments meeting the row, column and thermometer
\* constraints of the puzzle it is violated by S alone.
C16_CutForbidsSetAndSupersets ==
    solver = "ready" =>
        \A c \in Cuts :
            /\ c.pos # {} /\ c.neg = {} /\ c.op = "<=" /\ c.rhs = Cardinality(c.pos) - 1
            /\ \A a \in Assignments(cell_vars) :
                  ~Satisfies(a, c) <=> c.pos \subseteq ExtractSolution(cell_vars, a)
            /\ \A a \in FeasibleAssignments(cell_vars, InitialConstraints(puzzle)) :
                  ~Satisfies(a, c) <=> ExtractSolution(cell_vars, a) = c.pos

\* a cut was added for a set that is not the whole grid, on a puzzle with another
\* solution
C16_Witness ==
    /\ solver = "ready"
    /\ \E c \in Cuts : c.pos # cell_vars /\ Cardinality(c.pos) >= 2
    /\ Cardinality(ValidSolutions(puzzle)) >= 2

\* C17: every solve_iterative call, whatever the puzzle (one with all targets zero
\* included) and whatever the maximum (none included), ends by returning its list,
\* the loop having stopped on a "no solution" from solve or on the maximum; it
\* never ends with the duplicate-solution error (the engine deciding every problem).
C17_IterativeEndsByReturning ==
    (ret.op = "solve_iterative" /\ ret.nth = calls /\ pc = "idle") =>
        /\ ret.kind = "list"
        /\ status = "INFEASIBLE" \/ ReachedMax(ret.max, ret.value)

\* C18: the constraints of a solver instance are only ever added to: whatever call
\* is made (solve, solve_iterative, validate_solution, get_solver_info), every
\* constraint of the state before the step, the row, column and thermometer
\* constraints of the constructor and every cut, is still there unchanged after it,
\* and the set of cell variables is the same.
C18_ConstraintsOnlyAdded ==
    [][solver = "ready" =>
          /\ cell_vars' = cell_vars
          /\ Len(constraints') >= Len(constraints)
          /\ SubSeq(constraints', 1, Len(constraints)) = constraints
          /\ SubSeq(constraints', 1, Len(InitialConstraints(puzzle)))
               = InitialConstraints(puzzle)]_vars

\* get_solver_info or validate_solution ran on an instance holding two cuts
C18_Witness ==
    /\ ret.op \in {"get_solver_info", "validate_solution"}
    /\ Len(constraints) >= Len(InitialConstraints(puzzle)) + 2
    /\ Len(InitialConstraints(puzzle)) >= 3

\* C19: is_valid_solution accepts a candidate set only if every cell of it lies
\* inside the grid.
C19_AcceptedCandidatesInGrid ==
    ret.op = "validate_solution" =>
        \A S \in CandidateSets(puzzle) :
            IsValidSolution(puzzle, S) => S \subseteq GridCells(puzzle.height, puzzle.width)

\* C20: once a solve_iterative call without a maximum has returned its list, the
\* instance is exhausted: every later solve (public or inside solve_iterative) finds
\* nothing, every later public solve returns "no solution" and every later
\* solve_iterative call returns the empty list (the engine deciding every problem).
C20_ExhaustedAfterUnboundedEnumeration ==
    exhaustedSince > 0 =>
        /\ found.kind = "none"
        /\ FeasibleAssignments(cell_vars, constraints) = {}
        /\ (ret.nth > exhaustedSince /\ ret.op = "solve") => ret.kind = "none"
        /\ (ret.nth > exhaustedSince /\ ret.op = "solve_iterative")
              => ret.kind = "list" /\ ret.value = <<>>

\* after an enumeration without a maximum returned two sets, a later public solve
\* returned "no solution"
C20_Witness ==
    /\ exhaustedSince = 1
    /\ Len(iterLog) >= 1 /\ Len(iterLog[1]) >= 2
    /\ ret.op = "solve" /\ ret.nth = 2 /\ ret.kind = "none"

=============================================================================
